---- MODULE Spec2Model ----
(***************************************************************************)
(* Model of Huffman.py: Node / Tree / HuffmanTree and Compress.count,      *)
(* Compress.compress, Compress.decompress, Compress.__write_byte.          *)
(*                                                                         *)
(* The input file is held run-length encoded (a sequence of runs           *)
(* [c |-> byte, n |-> repetitions]); Read(runs, p, n) is infile.read(n) at *)
(* offset p.  Bit strings ('0'/'1' Python strings) are sequences over      *)
(* {0,1}.  A dict is a sequence of [c, w] entries in insertion order (dic) *)
(* or a function (codes).  A child pointer is <<>> (None) or <<node>>.     *)
(***************************************************************************)
EXTENDS Integers, Sequences, FiniteSets, TLC

\* ---- bounds of the explored inputs
NumSyms == 3
MaxLen == 4
LongRun == 16
MaxCut == 2
DeepSyms == 34
DeepBytes == 12
ShortLen == 2

\* ---- constants of the program
CountRead == 16
EncodeRead == 16
DecodeRead == 4
RefillBelow == 32
ByteBits == 8

VARIABLES src, pc, pos, dic, length, trees, ins, root, codes, buffer,
          complete, zobjs, zbytes, cprog, more, cut, dobjs, dbytes,
          dlength, droot, treeRead, dbuffer, data, dpos, dcomplete, out,
          dprog

cvars == <<pos, dic, length, trees, ins, root, codes, buffer, complete,
           zobjs, zbytes, cprog>>
dvars == <<cut, dobjs, dbytes, dlength, droot, treeRead, dbuffer, data,
           dpos, dcomplete, out, dprog>>
vars == <<src, pc, more, cvars, dvars>>

Symbols == 0 .. (NumSyms - 1)

\* ------------------------------------------------------------------------
\* The input file
\* ------------------------------------------------------------------------
RECURSIVE SrcLen(_)
SrcLen(runs) ==
  IF runs = <<>> THEN 0 ELSE Head(runs).n + SrcLen(Tail(runs))

\* a byte sequence as runs of one byte each
AsRuns(body) == [j \in 1 .. Len(body) |-> [c |-> body[j], n |-> 1]]

\* the byte at offset q (0-based), q < SrcLen(runs)
RECURSIVE ByteAt(_, _)
ByteAt(runs, q) ==
  IF q < Head(runs).n THEN Head(runs).c
  ELSE ByteAt(Tail(runs), q - Head(runs).n)

\* infile.read(n) at offset p: the next n bytes, fewer at the end of the file
Read(runs, p, n) ==
  [j \in 1 .. (IF p + n <= SrcLen(runs) THEN n
               ELSE IF p < SrcLen(runs) THEN SrcLen(runs) - p ELSE 0) |->
     ByteAt(runs, p + j - 1)]

\* ------------------------------------------------------------------------
\* Node, Tree
\* ------------------------------------------------------------------------
Node(character, weight) ==
  [character |-> character, weight |-> weight, left |-> <<>>, right |-> <<>>]

NodeMergeLeftOnly(left, right) ==
  [character |-> 0, weight |-> left.weight,
   left |-> <<left>>, right |-> <<right>>]

NodeMerge(left, right) ==
  [character |-> 0, weight |-> left.weight + right.weight,
   left |-> <<left>>, right |-> <<right>>]

IsLeaf(node) == node.left = <<>>

Tree(node) == [root |-> node, weight |-> node.weight]

TreeMerge(left, right) == Tree(NodeMerge(left.root, right.root))

\* ------------------------------------------------------------------------
\* Compress.count: the frequency dict, in insertion order
\* ------------------------------------------------------------------------
\* The loop `for i in data: dic[i] = dic.get(i, 0) + 1`, with data given as
\* runs (every n > 0): a key enters the dict at its first occurrence, after
\* the keys already there, and its count grows by its occurrences.
RECURSIVE Occurs(_, _)
Occurs(runs, c) ==
  IF runs = <<>> THEN 0
  ELSE (IF Head(runs).c = c THEN Head(runs).n ELSE 0) + Occurs(Tail(runs), c)

DicGet(d, c) ==
  IF \E k \in 1 .. Len(d) : d[k].c = c
  THEN d[CHOOSE k \in 1 .. Len(d) : d[k].c = c].w
  ELSE 0

NewKeys(d, runs) ==
  {k \in 1 .. Len(runs) :
     /\ \A m \in 1 .. Len(d) : d[m].c # runs[k].c
     /\ \A m \in 1 .. (k - 1) : runs[m].c # runs[k].c}

CountRuns(d, runs) ==
  [j \in 1 .. (Len(d) + Cardinality(NewKeys(d, runs))) |->
     LET c == IF j <= Len(d) THEN d[j].c
              ELSE runs[CHOOSE k \in NewKeys(d, runs) :
                          Cardinality({m \in NewKeys(d, runs) : m <= k})
                            = j - Len(d)].c
     IN [c |-> c, w |-> DicGet(d, c) + Occurs(runs, c)]]

\* ------------------------------------------------------------------------
\* HuffmanTree
\* ------------------------------------------------------------------------
InsertAt(s, i, x) == SubSeq(s, 1, i) \o <<x>> \o SubSeq(s, i + 1, Len(s))

\* list.sort(key=weight) is stable: equal weights keep their list order
SortRank(s, j) ==
  Cardinality({k \in 1 .. Len(s) :
                 \/ s[k].weight < s[j].weight
                 \/ s[k].weight = s[j].weight /\ k <= j})

SortByWeight(s) ==
  [r \in 1 .. Len(s) |-> s[CHOOSE j \in 1 .. Len(s) : SortRank(s, j) = r]]

BreaksStrict(tree, t) == tree.weight < t.weight

\* the test that ends the scan of __add_tree
Breaks(tree, t) == tree.weight <= t.weight

\* the value of i when the loop of __add_tree ends (0-based): the first
\* index where the test holds, len(trees) when there is none
AddIndex(ts, tree) ==
  IF \E k \in 1 .. Len(ts) : Breaks(tree, ts[k])
  THEN (CHOOSE k \in 1 .. Len(ts) :
          /\ Breaks(tree, ts[k])
          /\ \A m \in 1 .. (k - 1) : ~Breaks(tree, ts[m])) - 1
  ELSE Len(ts)

AddTree(ts, tree) == InsertAt(ts, AddIndex(ts, tree), tree)

\* the assignments self.codes[character] = code of a walk, in their order
RECURSIVE GenerateCodeSame(_, _)
GenerateCodeSame(node, code) ==
  IF IsLeaf(node) THEN <<[c |-> node.character, code |-> code]>>
  ELSE GenerateCodeSame(node.left[1], Append(code, 0))
         \o GenerateCodeSame(node.right[1], Append(code, 0))

RECURSIVE GenerateCode(_, _)
GenerateCode(node, code) ==
  IF IsLeaf(node) THEN <<[c |-> node.character, code |-> code]>>
  ELSE GenerateCode(node.left[1], Append(code, 0))
         \o GenerateCode(node.right[1], Append(code, 1))

\* the dict a sequence of assignments leaves: the last one of a key stays
DictOf(as) ==
  [k \in {as[j].c : j \in 1 .. Len(as)} |->
     as[CHOOSE j \in 1 .. Len(as) :
          as[j].c = k /\ \A m \in (j + 1) .. Len(as) : as[m].c # k].code]

EmptyDict == DictOf(<<>>)

InitialTrees(d) == SortByWeight([k \in 1 .. Len(d) |-> Tree(Node(d[k].c, d[k].w))])

MergeTwo(ts) == AddTree(Tail(Tail(ts)), TreeMerge(ts[1], ts[2]))

HuffmanCodes(r) ==
  IF IsLeaf(r) THEN DictOf(<<[c |-> r.character, code |-> <<0>>]>>)
  ELSE DictOf(GenerateCode(r, <<>>))

\* ------------------------------------------------------------------------
\* Bits and bytes
\* ------------------------------------------------------------------------
\* int(s, 2)
RECURSIVE BitsToInt(_)
BitsToInt(bits) ==
  IF bits = <<>> THEN 0
  ELSE 2 * BitsToInt(SubSeq(bits, 1, Len(bits) - 1)) + bits[Len(bits)]

\* "{:b}".format(i)
RECURSIVE FormatB(_)
FormatB(i) == IF i < 2 THEN <<i>> ELSE Append(FormatB(i \div 2), i % 2)

Zeros(k) == [j \in 1 .. k |-> 0]

\* str.zfill(width)
ZFill(s, width) == IF Len(s) >= width THEN s ELSE Zeros(width - Len(s)) \o s

RECURSIVE BytesToBits(_)
BytesToBits(bytes) ==
  IF bytes = <<>> THEN <<>>
  ELSE ZFill(FormatB(Head(bytes)), ByteBits) \o BytesToBits(Tail(bytes))

RECURSIVE EncodeBytes(_, _)
EncodeBytes(cs, bytes) ==
  IF bytes = <<>> THEN <<>>
  ELSE cs[Head(bytes)] \o EncodeBytes(cs, Tail(bytes))

FlushOne(buf) ==
  IF Len(buf) >= ByteBits
  THEN [written |-> <<BitsToInt(SubSeq(buf, 1, ByteBits))>>,
        buffer |-> SubSeq(buf, ByteBits + 1, Len(buf))]
  ELSE [written |-> <<>>, buffer |-> buf]

\* while len(buffer) >= 8: the first 8 bits are written as a byte
Flush(buf) ==
  [written |-> [j \in 1 .. (Len(buf) \div ByteBits) |->
                  BitsToInt(SubSeq(buf, ByteBits * (j - 1) + 1, ByteBits * j))],
   buffer |-> SubSeq(buf, ByteBits * (Len(buf) \div ByteBits) + 1, Len(buf))]

\* the last byte: the leftover bits padded on the right with '0'
PadByte(buf) == BitsToInt(buf \o Zeros(ByteBits - Len(buf)))

Percent(done, total) == (done * 100) \div total

\* ------------------------------------------------------------------------
\* Compress.__write_byte
\* ------------------------------------------------------------------------
\* the walk from the root; buffer[n] past the end raises IndexError
RECURSIVE Walk(_, _, _)
Walk(node, buf, n) ==
  IF IsLeaf(node) THEN [ok |-> TRUE, character |-> node.character, n |-> n]
  ELSE IF n >= Len(buf) THEN [ok |-> FALSE, character |-> 0, n |-> n]
  ELSE Walk(IF buf[n + 1] = 0 THEN node.left[1] ELSE node.right[1],
            buf, n + 1)

WriteByte(buf, r) ==
  IF IsLeaf(r) THEN [ok |-> TRUE, character |-> r.character, n |-> 1]
  ELSE Walk(r, buf, 0)

\* ------------------------------------------------------------------------
\* The inputs
\* ------------------------------------------------------------------------
NoNode == <<>>

Bodies(maxlen) == UNION {[1 .. k -> Symbols] : k \in 0 .. maxlen}

Inputs ==
  {AsRuns(b) : b \in Bodies(MaxLen)}
  \cup {<<[c |-> c, n |-> LongRun]>> \o AsRuns(b) :
          c \in Symbols, b \in Bodies(MaxLen)}

Init ==
  /\ src \in Inputs
  /\ pc = "count"
  /\ more = FALSE
  /\ pos = 0
  /\ dic = <<>>
  /\ length = 0
  /\ trees = <<>>
  /\ ins = 0
  /\ root = NoNode
  /\ codes = EmptyDict
  /\ buffer = <<>>
  /\ complete = 0
  /\ zobjs = <<>>
  /\ zbytes = <<>>
  /\ cprog = <<>>
  /\ cut = 0
  /\ dobjs = <<>>
  /\ dbytes = <<>>
  /\ dlength = 0
  /\ droot = NoNode
  /\ treeRead = FALSE
  /\ dbuffer = <<>>
  /\ data = <<>>
  /\ dpos = 0
  /\ dcomplete = 0
  /\ out = <<>>
  /\ dprog = <<>>

\* ------------------------------------------------------------------------
\* Compress.compress
\* ------------------------------------------------------------------------
\* one round of the loop of count
CCount ==
  /\ pc = "count"
  /\ LET chunk == Read(src, pos, CountRead)
     IN /\ Len(chunk) > 0
        /\ length' = length + Len(chunk)
        /\ dic' = CountRuns(dic, AsRuns(chunk))
        /\ pos' = pos + Len(chunk)
  /\ UNCHANGED <<src, pc, more, trees, ins, root, codes, buffer, complete,
                 zobjs, zbytes, cprog, dvars>>

\* count returns; the length is written; an empty input ends here
CDumpLength ==
  /\ pc = "count"
  /\ Len(Read(src, pos, CountRead)) = 0
  /\ zobjs' = Append(zobjs, length)
  /\ pc' = IF length = 0 THEN "c_done" ELSE "build"
  /\ UNCHANGED <<src, more, pos, dic, length, trees, ins, root, codes,
                 buffer, complete, zbytes, cprog, dvars>>

\* HuffmanTree.__init__: the sorted forest of leaves
HInit ==
  /\ pc = "build"
  /\ trees' = InitialTrees(dic)
  /\ pc' = "merge"
  /\ UNCHANGED <<src, more, pos, dic, length, ins, root, codes, buffer,
                 complete, zobjs, zbytes, cprog, dvars>>

\* one round of the merge loop
HMerge ==
  /\ pc = "merge"
  /\ Len(trees) > 1
  /\ trees' = MergeTwo(trees)
  /\ ins' = AddIndex(Tail(Tail(trees)), TreeMerge(trees[1], trees[2])) + 1
  /\ UNCHANGED <<src, pc, more, pos, dic, length, root, codes, buffer,
                 complete, zobjs, zbytes, cprog, dvars>>

\* the loop ends: the root and the code table
HFinish ==
  /\ pc = "merge"
  /\ Len(trees) <= 1
  /\ root' = trees[1].root
  /\ codes' = HuffmanCodes(trees[1].root)
  /\ pc' = "dumptree"
  /\ UNCHANGED <<src, more, pos, dic, length, trees, ins, buffer, complete,
                 zobjs, zbytes, cprog, dvars>>

\* the tree is written, the input rewound
CDumpTree ==
  /\ pc = "dumptree"
  /\ zobjs' = Append(zobjs, root)
  /\ pos' = 0
  /\ buffer' = <<>>
  /\ complete' = 0
  /\ pc' = "encode"
  /\ UNCHANGED <<src, more, dic, length, trees, ins, root, codes, zbytes,
                 cprog, dvars>>

\* one round of the encoding loop
CEncode ==
  /\ pc = "encode"
  /\ LET chunk == Read(src, pos, EncodeRead)
         f == Flush(buffer \o EncodeBytes(codes, chunk))
     IN /\ Len(chunk) # 0
        /\ zbytes' = zbytes \o f.written
        /\ buffer' = f.buffer
        /\ complete' = complete + Len(chunk)
        /\ cprog' = Append(cprog, Percent(complete + Len(chunk), length))
        /\ pos' = pos + Len(chunk)
  /\ UNCHANGED <<src, pc, more, dic, length, trees, ins, root, codes, zobjs,
                 dvars>>

\* the input is exhausted: the leftover bits are padded and written
CEncodeEnd ==
  /\ pc = "encode"
  /\ Len(Read(src, pos, EncodeRead)) = 0
  /\ zbytes' = IF Len(buffer) > 0 THEN Append(zbytes, PadByte(buffer))
               ELSE zbytes
  /\ pc' = "c_done"
  /\ UNCHANGED <<src, more, pos, dic, length, trees, ins, root, codes,
                 buffer, complete, zobjs, cprog, dvars>>

Compress ==
  \/ CCount \/ CDumpLength \/ HInit \/ HMerge \/ HFinish \/ CDumpTree
  \/ CEncode \/ CEncodeEnd

\* ------------------------------------------------------------------------
\* Compress.decompress
\* ------------------------------------------------------------------------
\* infile.read(4) at dpos is known when the bytes there are materialised
Materialised(p) == ~more \/ p + DecodeRead <= Len(dbytes)

ReadFile(bytes, p, n) ==
  SubSeq(bytes, p + 1, IF p + n <= Len(bytes) THEN p + n ELSE Len(bytes))

\* the file handed to decompress: the compressed file, or the compressed
\* file with its last k payload bytes missing
DOpen(k) ==
  /\ pc = "c_done"
  /\ k <= Len(zbytes)
  /\ k = 0 \/ ~more
  /\ cut' = k
  /\ dobjs' = zobjs
  /\ dbytes' = SubSeq(zbytes, 1, Len(zbytes) - k)
  /\ pc' = "d_len"
  /\ UNCHANGED <<src, more, cvars, dlength, droot, treeRead, dbuffer, data,
                 dpos, dcomplete, out, dprog>>

DLoadLengthNoCheck ==
  /\ pc = "d_len"
  /\ dlength' = dobjs[1]
  /\ pc' = "d_tree"
  /\ UNCHANGED <<src, more, cvars, cut, dobjs, dbytes, droot, treeRead,
                 dbuffer, data, dpos, dcomplete, out, dprog>>

\* the length is read; length 0 ends the run with progress 100
DLoadLength ==
  /\ pc = "d_len"
  /\ dlength' = dobjs[1]
  /\ IF dobjs[1] = 0
     THEN dprog' = Append(dprog, 100) /\ pc' = "d_done"
     ELSE dprog' = dprog /\ pc' = "d_tree"
  /\ UNCHANGED <<src, more, cvars, cut, dobjs, dbytes, droot, treeRead,
                 dbuffer, data, dpos, dcomplete, out>>

\* the tree is read (pickle.load raises at the end of the file), then the
\* first 4 bytes
DLoadTree ==
  /\ pc = "d_tree"
  /\ Materialised(0)
  /\ treeRead' = TRUE
  /\ IF Len(dobjs) < 2
     THEN pc' = "d_error" /\ UNCHANGED <<droot, dbuffer, data, dpos, dcomplete>>
     ELSE /\ droot' = dobjs[2]
          /\ dbuffer' = <<>>
          /\ data' = ReadFile(dbytes, 0, DecodeRead)
          /\ dpos' = Len(ReadFile(dbytes, 0, DecodeRead))
          /\ dcomplete' = 0
          /\ pc' = "d_loop"
  /\ UNCHANGED <<src, more, cvars, cut, dobjs, dbytes, dlength, out, dprog>>

Refilling == Len(dbuffer) < RefillBelow /\ Len(data) > 0

\* the loop, first branch: the bits of data join the buffer, 4 bytes are read
DRefill ==
  /\ pc = "d_loop"
  /\ dcomplete < dlength
  /\ Refilling
  /\ Materialised(dpos)
  /\ dbuffer' = dbuffer \o BytesToBits(data)
  /\ data' = ReadFile(dbytes, dpos, DecodeRead)
  /\ dpos' = dpos + Len(ReadFile(dbytes, dpos, DecodeRead))
  /\ UNCHANGED <<src, pc, more, cvars, cut, dobjs, dbytes, dlength, droot,
                 treeRead, dcomplete, out, dprog>>

\* the loop, second branch: one symbol is written, or IndexError is raised
DWriteByte ==
  /\ pc = "d_loop"
  /\ dcomplete < dlength
  /\ ~Refilling
  /\ LET w == WriteByte(dbuffer, droot)
     IN IF w.ok
        THEN /\ out' = Append(out, w.character)
             /\ dcomplete' = dcomplete + 1
             /\ dprog' = Append(dprog, Percent(dcomplete + 1, dlength))
             /\ dbuffer' = SubSeq(dbuffer, w.n + 1, Len(dbuffer))
             /\ pc' = pc
        ELSE /\ pc' = "d_error"
             /\ UNCHANGED <<out, dcomplete, dprog, dbuffer>>
  /\ UNCHANGED <<src, more, cvars, cut, dobjs, dbytes, dlength, droot,
                 treeRead, data, dpos>>

\* the loop ends
DFinish ==
  /\ pc = "d_loop"
  /\ dcomplete >= dlength
  /\ pc' = "d_done"
  /\ UNCHANGED <<src, more, cvars, dvars>>

Decompress ==
  \/ \E k \in 0 .. MaxCut : DOpen(k)
  \/ DLoadLength \/ DLoadTree \/ DRefill \/ DWriteByte \/ DFinish

Next == Compress \/ Decompress

Spec == Init /\ [][Next]_vars

\* ------------------------------------------------------------------------
\* Inputs too long to be read chunk by chunk: count and the encoding loop
\* are taken in one step each, and only the first DeepBytes payload bytes
\* are materialised; `more` tells that the payload goes on after them.
\* ------------------------------------------------------------------------
RECURSIVE TotalBits(_, _)
TotalBits(d, cs) ==
  IF d = <<>> THEN 0
  ELSE Head(d).w * Len(cs[Head(d).c]) + TotalBits(Tail(d), cs)

PayloadLen(d, cs) == (TotalBits(d, cs) + ByteBits - 1) \div ByteBits

\* the encoding loop and the padding, stopped once nbytes bytes are written
RECURSIVE EncodeLoop(_, _, _, _, _, _)
EncodeLoop(runs, cs, p, buf, written, nbytes) ==
  IF Len(written) >= nbytes THEN SubSeq(written, 1, nbytes)
  ELSE IF Len(Read(runs, p, EncodeRead)) = 0
  THEN IF Len(buf) > 0 THEN Append(written, PadByte(buf)) ELSE written
  ELSE EncodeLoop(runs, cs, p + Len(Read(runs, p, EncodeRead)),
         Flush(buf \o EncodeBytes(cs, Read(runs, p, EncodeRead))).buffer,
         written \o Flush(buf \o EncodeBytes(cs, Read(runs, p, EncodeRead))).written,
         nbytes)

RECURSIVE FibFrom(_, _, _)
FibFrom(k, a, b) == IF k <= 1 THEN a ELSE FibFrom(k - 1, b, a + b)

\* 1, 1, 2, 3, 5, ...
Fib(k) == FibFrom(k, 1, 1)

\* DeepSyms byte values with Fibonacci counts: one byte `first`, then the
\* rest of the bytes, the most frequent value first
HasBytes(run) == run.n > 0

DeepInput(first) ==
  <<[c |-> first, n |-> 1]>>
  \o SelectSeq([k \in 1 .. DeepSyms |->
                  [c |-> DeepSyms - k,
                   n |-> Fib(DeepSyms - k + 1)
                           - (IF DeepSyms - k = first THEN 1 ELSE 0)]],
               HasBytes)

FileInputs ==
  {DeepInput(first) : first \in 0 .. (DeepSyms - 1)}
  \cup {AsRuns(b) : b \in Bodies(ShortLen) \ {<<>>}}

\* the state of compress when count has returned and the length is written
InitFile ==
  /\ src \in FileInputs
  /\ pc = "build"
  /\ more = FALSE
  /\ pos = SrcLen(src)
  /\ dic = CountRuns(<<>>, src)
  /\ length = SrcLen(src)
  /\ trees = <<>>
  /\ ins = 0
  /\ root = NoNode
  /\ codes = EmptyDict
  /\ buffer = <<>>
  /\ complete = 0
  /\ zobjs = <<SrcLen(src)>>
  /\ zbytes = <<>>
  /\ cprog = <<>>
  /\ cut = 0
  /\ dobjs = <<>>
  /\ dbytes = <<>>
  /\ dlength = 0
  /\ droot = NoNode
  /\ treeRead = FALSE
  /\ dbuffer = <<>>
  /\ data = <<>>
  /\ dpos = 0
  /\ dcomplete = 0
  /\ out = <<>>
  /\ dprog = <<>>

\* the whole encoding loop and the padding; the progress values are not kept
CEncodeAll ==
  /\ pc = "encode"
  /\ zbytes' = EncodeLoop(src, codes, 0, <<>>, <<>>, DeepBytes)
  /\ more' = (PayloadLen(dic, codes) > DeepBytes)
  /\ pos' = length
  /\ complete' = length
  /\ pc' = "c_done"
  /\ UNCHANGED <<src, dic, length, trees, ins, root, codes, buffer, zobjs,
                 cprog, dvars>>

NextFile ==
  \/ HInit \/ HMerge \/ HFinish \/ CDumpTree \/ CEncodeAll
  \/ Decompress

SpecFile == InitFile /\ [][NextFile]_vars

\* ------------------------------------------------------------------------
\* Properties
\* ------------------------------------------------------------------------
Input == Read(src, 0, SrcLen(src))

IsPrefix(a, b) == Len(a) <= Len(b) /\ SubSeq(b, 1, Len(a)) = a

RECURSIVE LeafSeq(_)
LeafSeq(node) ==
  IF IsLeaf(node) THEN <<[c |-> node.character, w |-> node.weight]>>
  ELSE LeafSeq(node.left[1]) \o LeafSeq(node.right[1])

RECURSIVE LeafSum(_)
LeafSum(node) ==
  IF IsLeaf(node) THEN node.weight
  ELSE LeafSum(node.left[1]) + LeafSum(node.right[1])

RECURSIVE WellWeighted(_)
WellWeighted(node) ==
  \/ IsLeaf(node)
  \/ /\ Len(node.left) = 1 /\ Len(node.right) = 1
     /\ node.weight = node.left[1].weight + node.right[1].weight
     /\ WellWeighted(node.left[1]) /\ WellWeighted(node.right[1])

Occurrences(s, c) == Cardinality({j \in 1 .. Len(s) : s[j] = c})

Range(s) == {s[j] : j \in 1 .. Len(s)}

Sorted(ts) == \A j \in 1 .. (Len(ts) - 1) : ts[j].weight <= ts[j + 1].weight

NonDecreasing(s) == \A j \in 1 .. (Len(s) - 1) : s[j] <= s[j + 1]

Pow2(k) == IF k = 0 THEN 1 ELSE IF k = 1 THEN 2 ELSE IF k = 2 THEN 4
           ELSE IF k = 3 THEN 8 ELSE IF k = 4 THEN 16 ELSE IF k = 5 THEN 32
           ELSE IF k = 6 THEN 64 ELSE 128

\* the bits of a byte sequence, most significant bit first
FileBits(bytes) ==
  [j \in 1 .. (ByteBits * Len(bytes)) |->
     (bytes[((j - 1) \div ByteBits) + 1]
        \div Pow2(ByteBits - 1 - ((j - 1) % ByteBits))) % 2]

CompressReturned == pc \in {"c_done", "d_len", "d_tree", "d_loop", "d_done", "d_error"}

DecompressEnded == pc \in {"d_done", "d_error"}

TreeBuilt == pc \in {"dumptree", "encode"} \/ (CompressReturned /\ length > 0)

\* the bits decompress has taken out of its buffer
ConsumedBits == ByteBits * (dpos - Len(data)) - Len(dbuffer)

\* C1: when decompress of the file that compress wrote has ended, it has
\* ended normally and its output is the input, byte for byte.
C1_RoundTrip ==
  (cut = 0 /\ DecompressEnded)
    => /\ pc = "d_done"
       /\ Len(out) = SrcLen(src)
       /\ out = Read(src, 0, Len(out))

\* C2: in the code table of a built tree every symbol of the frequency
\* table has one non-empty code, and no code of a symbol is a prefix of the
\* code of another symbol.
C2_PrefixFree ==
  TreeBuilt
    => /\ DOMAIN codes = {dic[k].c : k \in 1 .. Len(dic)}
       /\ \A a \in DOMAIN codes : Len(codes[a]) > 0
       /\ \A a, b \in DOMAIN codes : a # b => ~IsPrefix(codes[a], codes[b])

C2_Witness ==
  TreeBuilt /\ Cardinality(DOMAIN codes) >= 3

\* C3: on an empty input compress writes the length 0 and nothing else, and
\* decompress of that file writes no byte and does not read a tree.
C3_EmptyInput ==
  (SrcLen(src) = 0 /\ pc # "count")
    => /\ zobjs = <<0>>
       /\ zbytes = <<>>
       /\ pc \in {"c_done", "d_len", "d_done"}
       /\ out = <<>>
       /\ ~treeRead

C3_Witness == SrcLen(src) = 0 /\ pc = "d_done" /\ dobjs = <<0>>

\* C4: the progress values of compress and of decompress are non-decreasing
\* and in 0..100, and on a zero-length input each of the two reports
\* exactly once, the value 100.
C4_Progress ==
  /\ NonDecreasing(cprog) /\ Range(cprog) \subseteq 0 .. 100
  /\ NonDecreasing(dprog) /\ Range(dprog) \subseteq 0 .. 100
  /\ (CompressReturned /\ length = 0) => cprog = <<100>>
  /\ (pc = "d_done" /\ dlength = 0) => dprog = <<100>>

\* C5: the root weight of the built tree is the sum of the leaf weights and
\* the length of the input, every internal node weighs as much as its two
\* children, and the leaves are the distinct input bytes with their counts.
C5_WeightConservation ==
  TreeBuilt
    => /\ root.weight = LeafSum(root)
       /\ root.weight = length
       /\ length = SrcLen(src)
       /\ WellWeighted(root)
       /\ Len(LeafSeq(root)) = Cardinality(Range(Input))
       /\ Range(LeafSeq(root))
            = {[c |-> c, w |-> Occurrences(Input, c)] : c \in Range(Input)}

C5_Witness ==
  TreeBuilt /\ ~IsLeaf(root) /\ Len(dic) >= 3 /\ root.weight > CountRead

\* C6: decompress of a file with length L > 0 whose payload has lost its
\* last bytes never ends normally.
C6_TruncatedFails ==
  (cut > 0 /\ dlength > 0) => pc # "d_done"

\* C7 as stated: the merged tree stands after every tree of equal or smaller
\* weight and before every tree of larger weight, and the list is sorted.
C7_InsertAfterEqual ==
  /\ pc = "merge" => Sorted(trees)
  /\ ins > 0
       => /\ \A j \in 1 .. (ins - 1) : trees[j].weight <= trees[ins].weight
          /\ \A j \in (ins + 1) .. Len(trees) :
                trees[j].weight > trees[ins].weight

\* C7 amended: the merged tree stands after every tree of smaller weight
\* and before every tree of equal or larger weight, and the list is sorted.
C7_InsertBeforeEqual ==
  /\ pc = "merge" => Sorted(trees)
  /\ ins > 0
       => /\ \A j \in 1 .. (ins - 1) : trees[j].weight < trees[ins].weight
          /\ \A j \in (ins + 1) .. Len(trees) :
                trees[j].weight >= trees[ins].weight

C7_Witness ==
  /\ pc = "merge" /\ ins > 0
  /\ \E j \in (ins + 1) .. Len(trees) : trees[j].weight = trees[ins].weight

\* C8: the payload is the codes of the input bytes in input order, then 0 to
\* 7 zero bits up to the next multiple of 8; between two chunks the bit
\* buffer holds fewer than 8 bits.
C8_BitCount ==
  /\ pc = "encode" => Len(buffer) < ByteBits
  /\ (CompressReturned /\ length > 0)
       => LET bits == FileBits(zbytes)
              want == EncodeBytes(codes, Input)
          IN /\ Len(bits) = ByteBits * ((Len(want) + ByteBits - 1) \div ByteBits)
             /\ Len(bits) - Len(want) \in 0 .. (ByteBits - 1)
             /\ SubSeq(bits, 1, Len(want)) = want
             /\ \A j \in (Len(want) + 1) .. Len(bits) : bits[j] = 0

C8_Witness ==
  /\ pc = "c_done" /\ length > EncodeRead
  /\ ByteBits * Len(zbytes) > Len(EncodeBytes(codes, Input))
  /\ Len(zbytes) > 1

\* C9: decompress of the file that compress wrote for L > 0 bytes ends with
\* exactly L bytes written; it takes no bit beyond the codes of the L bytes,
\* and under a single-leaf tree every byte written costs one bit and is the
\* leaf's byte.
C9_ExactCount ==
  /\ (cut = 0 /\ dlength > 0 /\ DecompressEnded)
       => /\ pc = "d_done"
          /\ Len(out) = dlength
          /\ ConsumedBits = TotalBits(dic, codes)
  /\ (cut = 0 /\ dlength > 0 /\ pc \in {"d_loop", "d_done"} /\ IsLeaf(droot))
       => /\ ConsumedBits = Len(out)
          /\ \A j \in 1 .. Len(out) : out[j] = droot.character

\* C10: whenever decompress, on the file that compress wrote, calls
\* __write_byte, the buffer starts with the whole code of the next byte.
C10_BufferSufficient ==
  (cut = 0 /\ pc = "d_loop" /\ dcomplete < dlength /\ ~Refilling)
    => IsPrefix(codes[Read(src, dcomplete, 1)[1]], dbuffer)

\* count and the encoding loop taken in one step give what the chunked
\* actions give
OneStepAgrees ==
  (pc = "c_done" /\ length > 0)
    => /\ dic = CountRuns(<<>>, src)
       /\ length = SrcLen(src)
       /\ zbytes = EncodeLoop(src, codes, 0, <<>>, <<>>, Len(zbytes) + 1)
       /\ Len(zbytes) = PayloadLen(dic, codes)

====
